---- MODULE Spec2Model ----
(***************************************************************************)
(* NearInitializationModule (pynpoint/readwrite/near.py): run() validates  *)
(* the module, uncompresses '.fits.Z' files in batches of threads, then    *)
(* reads every '.fits' file in sorted order, splits its frames into chop A *)
(* and chop B, and appends frames and attributes to four output ports      *)
(* (1: nod A chop A, 2: nod A chop B, 3: nod B chop A, 4: nod B chop B).   *)
(***************************************************************************)
EXTENDS Integers, Sequences, FiniteSets, TLC

\* ------------------------------------------------------------------ bounds
MaxFiles == 3        \* files in the directory, run-level specification
MaxFitFrames == 3    \* frames of the single file of the open_fit specification
MaxNodFiles == 4     \* files in the directory, nod-fallback specification
MaxAttrFiles == 2    \* files in the directory, attribute specification
MaxCompressed == 3   \* '.fits.Z' files, uncompress specification
MaxCpu == 3          \* CPU attribute of the configuration port
MaxAgainFiles == 2   \* files in the directory, repeated-run specification
MaxRuns == 2         \* calls of run() on one instance, repeated-run specification

\* ------------------------------------------------------------------ data
Ports == 1..4

\* Keys of get_attributes() with config "header": the static ones and a non-static one.
m_static == <<"INSTRUMENT", "DIT">>
m_non_static == <<"NDIT">>

\* An image is known by what line 537 reads of it: "zero" is an all-zero frame,
\* "corner0" has pixel [0,0] = 0 but other pixels set, "data" has pixel [0,0] # 0.
Images == {"zero", "corner0", "data"}
Pixel00(img) == IF img = "data" THEN 1 ELSE 0

Cycles == {"HCYCLE1", "HCYCLE2", "OTHER"}
Frames == [cycle : {"HCYCLE1", "HCYCLE2"}, img : Images] \cup {[cycle |-> "OTHER", img |-> "data"]}
F1 == [cycle |-> "HCYCLE1", img |-> "data"]
F2 == [cycle |-> "HCYCLE2", img |-> "data"]
F1c == [cycle |-> "HCYCLE1", img |-> "corner0"]
F2z == [cycle |-> "HCYCLE2", img |-> "zero"]
Fo == [cycle |-> "OTHER", img |-> "data"]

\* All bursts of at most n frames.
Bursts(n) == UNION {[1..k -> Frames] : k \in 0..n}

StaticOf(a, b) == [INSTRUMENT |-> a, DIT |-> b]

\* A FITS file as the module reads it: the value of 'ESO SEQ NODPOS' ("none": the
\* key is absent), the frames, the values of the static keys (0: key absent) and
\* how the non-static attribute appears in the header ("item": under its own
\* name, "key": under the configured FITS key, "absent").
FileOf(nodpos, frames, static, ns) ==
    [nodpos |-> nodpos, frames |-> frames, static |-> static, ns |-> ns]

\* Inputs of the run-level specification: representative bursts, every nod case.
RunBursts == {<<>>, <<F1, F2>>, <<F1c, F2>>, <<F1, Fo, F2>>}
RunFiles == {FileOf(n, b, StaticOf(1, 1), "item") : n \in {"A", "B", "none"}, b \in RunBursts}

\* Inputs of the open_fit specification: every burst up to MaxFitFrames.
FitFiles == {FileOf(n, b, StaticOf(1, 1), "item") :
                n \in {"A", "B", "none", "X"}, b \in Bursts(MaxFitFrames)}

\* Inputs of the nod-fallback specification.
NodFiles == {FileOf(n, <<F1, F2>>, StaticOf(1, 1), "item") : n \in {"A", "B", "none"}}

\* Inputs of the attribute specification.
AttrFiles == {FileOf(n, <<F1, F1, F2>>, StaticOf(a, 1), ns) :
                n \in {"A", "B", "X"}, a \in 0..2, ns \in {"item", "key", "absent"}}

\* Inputs of the uncompress specification.
UncFiles == {FileOf("none", <<F1, F2>>, StaticOf(1, 1), "item")}

\* ------------------------------------------------------------------ state
VARIABLES
    tags,              \* tags of the four output ports
    m_scheme,          \* self.m_scheme
    m_check,           \* self.m_check ("True", "False", or a non-boolean)
    m_overwrite,       \* self.m_overwrite
    config,            \* the configuration port: CPU and the FITS key of each attribute
    m_count,           \* self.m_count
    dir,               \* the input directory: dir[k] is the extension of file k
    port,              \* the four output ports (datasets and attributes in the database)
    pc,                \* position of the main thread in run()
    err,               \* the exception that ended run(), "" if none
    files_compressed,  \* uncompress(): the compressed files, in listing order
    bi,                \* uncompress(): the batch index i
    jobs,              \* uncompress(): indices in tasks of the current batch's threads
    nstarted,          \* uncompress(): threads of the batch started so far
    njoined,           \* uncompress(): threads of the batch joined so far
    tasks,             \* every threading.Thread created: file, batch, state and the
                       \* commands it ran with their outcome
    files,             \* run(): the sorted list of '.fits' files
    i,                 \* run(): the index of the next file
    hdus,              \* the files opened so far by this call of run(), in order
    log,               \* warnings and messages emitted by this call of run(), in order
    invocation         \* the number of calls of run() on the instance, this one included

vars == <<tags, m_scheme, m_check, m_overwrite, config, m_count, dir, port, pc, err,
          files_compressed, bi, jobs, nstarted, njoined, tasks, files, i, hdus, log,
          invocation>>

uncVars == <<files_compressed, bi, jobs, nstarted, njoined, tasks>>
\* What no step of run() changes: the configuration and the count of calls.
cfgVars == <<tags, m_scheme, m_check, m_overwrite, config, invocation>>

\* ------------------------------------------------------------------ helpers
Min(S) == CHOOSE x \in S : \A y \in S : x <= y
Max(S) == CHOOSE x \in S : \A y \in S : x >= y

RECURSIVE SortedSeq(_)
\* files.sort(): the ascending sequence of a set of file names.
SortedSeq(S) == IF S = {} THEN <<>> ELSE <<Min(S)>> \o SortedSeq(S \ {Min(S)})

Range(s) == {s[k] : k \in 1..Len(s)}

\* All orders in which os.listdir may list the set S.
Listings(S) == {s \in [1..Cardinality(S) -> S] : Range(s) = S}

Warn(w, it, arg) == [w |-> w, it |-> it, arg |-> arg]
Count(w) == Len(SelectSeq(log, LAMBDA e : e.w = w))

\* ------------------------------------------------------------------ output ports
\* A port with no dataset and no attributes (after del_all_data, del_all_attributes).
EmptyPort ==
    [exists |-> FALSE, images |-> <<>>, attrs |-> [a \in Range(m_static) |-> 0],
     ns |-> <<>>, INDEX |-> <<>>, FILES |-> <<>>, PIXSCALE |-> FALSE,
     flushes |-> 0, history |-> "", closed |-> FALSE]

\* A port holding data and attributes of an earlier run.
PriorPort ==
    [EmptyPort EXCEPT !.exists = TRUE, !.images = <<[it |-> -1, src |-> 1, img |-> "data"]>>,
                      !.attrs = [a \in Range(m_static) |-> 2], !.INDEX = <<0>>]

\* OutputPort.append(data_dim=3): creates the dataset if needed and appends the frames.
PortAppend(p, stack) == [p EXCEPT !.exists = TRUE, !.images = p.images \o stack]

\* OutputPort.check_static_attribute: 1 if the attribute is not there, 0 if it is
\* there with this value, -1 if it is there with another value. The caller handles
\* the KeyError of a port without dataset.
CheckStaticAttribute(p, item, value) ==
    IF p.attrs[item] = 0 THEN 1 ELSE IF p.attrs[item] = value THEN 0 ELSE -1

\* OutputPort.add_attribute(static=True): sets the attribute; on a port without
\* dataset it only warns.
AddAttribute(p, item, value) ==
    IF p.exists THEN [p EXCEPT !.attrs[item] = value] ELSE p

\* OutputPort.append_attribute_data: always appends.
AppendAttributeData(p, value) == [p EXCEPT !.ns = Append(p.ns, value)]

\* OutputPort.flush.
Flush(p) == [p EXCEPT !.flushes = p.flushes + 1]

\* ------------------------------------------------------------------ open_fit
\* NodOf with the ABBA pattern taken for A at positions 0 and 2.
NodOfEven(file, number) ==
    IF file.nodpos # "none" THEN file.nodpos
    ELSE IF m_scheme = "ABBA"
         THEN (IF number % 4 = 0 \/ number % 4 = 2 THEN "A" ELSE "B")
         ELSE IF m_scheme = "ABAB"
              THEN (IF number % 2 = 0 THEN "A" ELSE "B")
              ELSE "unbound"

\* Lines 487-507: the nod of a file, from the header or from its position.
NodOf(file, number) ==
    IF file.nodpos # "none" THEN file.nodpos
    ELSE IF m_scheme = "ABBA"
         THEN (IF number % 4 = 0 \/ number % 4 = 3 THEN "A" ELSE "B")
         ELSE IF m_scheme = "ABAB"
              THEN (IF number % 2 = 0 THEN "A" ELSE "B")
              ELSE "unbound"

\* NodWarning without the test of line 491: every file without the key warns.
NodWarningEvery(file, number) ==
    IF file.nodpos = "none" THEN <<Warn("nodpos_missing", number, 0)>> ELSE <<>>

\* Lines 490-493: the warning of the missing key.
NodWarning(file, number) ==
    IF file.nodpos = "none" /\ number = 0 THEN <<Warn("nodpos_missing", number, 0)>> ELSE <<>>

\* Lines 512-513: a buffer of n all-zero frames.
ZeroBuffer(n) == [k \in 1..n |-> [src |-> 0, img |-> "zero"]]

\* Write that fills the buffer from its end.
WriteFromEnd(buffer, pos, slot) ==
    [j \in 1..Len(buffer) |-> IF j = Len(buffer) + 1 - pos THEN slot ELSE buffer[j]]

\* Lines 525, 529: buffer[pos, :, :] = images[i, :, :].
Write(buffer, pos, slot) == [j \in 1..Len(buffer) |-> IF j = pos THEN slot ELSE buffer[j]]

RECURSIVE ClassifyLoop(_, _, _)
\* Lines 519-534: frame k goes to the next free slot of chopa or chopb, by its tag.
ClassifyLoop(frames, k, acc) ==
    IF k > Len(frames) THEN acc
    ELSE LET cycle == frames[k].cycle
             slot == [src |-> k, img |-> frames[k].img]
         IN ClassifyLoop(frames, k + 1,
                IF cycle = "HCYCLE1"
                THEN [chopa |-> Write(acc.chopa, acc.count_im_1 + 1, slot),
                      chopb |-> acc.chopb,
                      count_im_1 |-> acc.count_im_1 + 1,
                      count_im_2 |-> acc.count_im_2,
                      dropped |-> acc.dropped]
                ELSE IF cycle = "HCYCLE2"
                     THEN [chopa |-> acc.chopa,
                           chopb |-> Write(acc.chopb, acc.count_im_2 + 1, slot),
                           count_im_1 |-> acc.count_im_1,
                           count_im_2 |-> acc.count_im_2 + 1,
                           dropped |-> acc.dropped]
                     ELSE [chopa |-> acc.chopa,
                           chopb |-> acc.chopb,
                           count_im_1 |-> acc.count_im_1,
                           count_im_2 |-> acc.count_im_2,
                           dropped |-> Append(acc.dropped, k - 1)])

\* Lines 537-538: keep the frames of the buffer whose pixel [0,0] is not zero.
Trim(buffer) == SelectSeq(buffer, LAMBDA s : Pixel00(s.img) # 0)

\* Lines 511-541: the two chop stacks of a file and the warnings of the classifier.
Classify(frames, number) ==
    LET n == Len(frames)
        acc == ClassifyLoop(frames, 1,
                   [chopa |-> ZeroBuffer(n), chopb |-> ZeroBuffer(n),
                    count_im_1 |-> 0, count_im_2 |-> 0, dropped |-> <<>>])
        chopa == Trim(acc.chopa)
        chopb == Trim(acc.chopb)
    IN [chopa |-> chopa, chopb |-> chopb,
        count_im_1 |-> acc.count_im_1, count_im_2 |-> acc.count_im_2,
        warns |-> [k \in 1..Len(acc.dropped) |-> Warn("chop_not_found", number, acc.dropped[k])]
                  \o (IF Len(chopa) # Len(chopb)
                      THEN <<Warn("not_equal", number, 0)>> ELSE <<>>)]

\* open_fit: chopa, chopb, nod, shape[0] and the warnings, in order.
OpenFit(file, number) ==
    LET c == Classify(file.frames, number)
    IN [chopa |-> c.chopa, chopb |-> c.chopb, nod |-> NodOf(file, number),
        nimages |-> Len(file.frames),
        count_im_1 |-> c.count_im_1, count_im_2 |-> c.count_im_2,
        warns |-> NodWarning(file, number) \o c.warns]

\* The frames of a stack, tagged with the iteration that appended them.
Stack(chop, number) == [k \in 1..Len(chop) |-> [it |-> number, src |-> chop[k].src, img |-> chop[k].img]]

\* Lines 594-600: the stacks go to the two ports of the nod.
AppendStacks(ps, r, number) ==
    [p \in Ports |->
        IF (r.nod = "A" /\ p = 1) \/ (r.nod = "B" /\ p = 3)
        THEN PortAppend(ps[p], Stack(r.chopa, number))
        ELSE IF (r.nod = "A" /\ p = 2) \/ (r.nod = "B" /\ p = 4)
             THEN PortAppend(ps[p], Stack(r.chopb, number))
             ELSE ps[p]]

\* ------------------------------------------------------------------ attributes
\* StaticItem with the 'not found' warning given for the last file only.
StaticItemLastOnly(acc, k, file, iteration, end) ==
    LET item == m_static[k]
        fitskey == config.key[item]
        value == file.static[item]
        have == {p \in Ports : acc.port[p].exists}
        msgs == IF iteration = end THEN {p \in Ports \ have : acc.flags[p] = 0} ELSE {}
        said == [j \in 1..Cardinality(msgs) |-> Warn("tag_empty", iteration, SortedSeq(msgs)[j])]
        bound == acc.bound \/ have # {}
        status == IF have # {} THEN CheckStaticAttribute(acc.port[Max(have)], item, value)
                  ELSE acc.status
    IN IF acc.raised \/ m_check # "True" \/ fitskey = "None" THEN acc
       ELSE IF value = 0
            THEN [acc EXCEPT !.log = IF iteration = end
                                     THEN Append(acc.log, Warn("not_found", iteration, k))
                                     ELSE acc.log]
            ELSE [port |-> IF bound /\ status = 1
                           THEN [p \in Ports |-> AddAttribute(acc.port[p], item, value)]
                           ELSE acc.port,
                  bound |-> bound,
                  status |-> status,
                  flags |-> [p \in Ports |-> IF p \in msgs THEN 1 ELSE acc.flags[p]],
                  log |-> acc.log \o said
                          \o (IF bound /\ status = -1
                              THEN <<Warn("changed", iteration, k)>> ELSE <<>>),
                  raised |-> ~bound]

\* StaticItem without the test of the 'None' key (line 182).
StaticItemNoSentinel(acc, k, file, iteration, end) ==
    LET item == m_static[k]
        fitskey == config.key[item]
        value == file.static[item]
        have == {p \in Ports : acc.port[p].exists}
        msgs == IF iteration = end THEN {p \in Ports \ have : acc.flags[p] = 0} ELSE {}
        said == [j \in 1..Cardinality(msgs) |-> Warn("tag_empty", iteration, SortedSeq(msgs)[j])]
        bound == acc.bound \/ have # {}
        status == IF have # {} THEN CheckStaticAttribute(acc.port[Max(have)], item, value)
                  ELSE acc.status
    IN IF acc.raised \/ m_check # "True" THEN acc
       ELSE IF value = 0
            THEN [acc EXCEPT !.log = Append(acc.log, Warn("not_found", iteration, k))]
            ELSE [port |-> IF bound /\ status = 1
                           THEN [p \in Ports |-> AddAttribute(acc.port[p], item, value)]
                           ELSE acc.port,
                  bound |-> bound,
                  status |-> status,
                  flags |-> [p \in Ports |-> IF p \in msgs THEN 1 ELSE acc.flags[p]],
                  log |-> acc.log \o said
                          \o (IF bound /\ status = -1
                              THEN <<Warn("changed", iteration, k)>> ELSE <<>>),
                  raised |-> ~bound]

\* Lines 176-266: one item of m_static. acc: the ports, status (bound tells whether
\* it was ever assigned), the flags a..d, the messages, and whether 'status' was
\* read unassigned (UnboundLocalError). Every port with a dataset is checked in
\* turn, so status is that of the last one; the ports without dataset raise
\* KeyError and get the 'is empty' message on the last file, once each.
StaticItem(acc, k, file, iteration, end) ==
    LET item == m_static[k]
        fitskey == config.key[item]
        value == file.static[item]
        have == {p \in Ports : acc.port[p].exists}
        msgs == IF iteration = end THEN {p \in Ports \ have : acc.flags[p] = 0} ELSE {}
        said == [j \in 1..Cardinality(msgs) |-> Warn("tag_empty", iteration, SortedSeq(msgs)[j])]
        bound == acc.bound \/ have # {}
        status == IF have # {} THEN CheckStaticAttribute(acc.port[Max(have)], item, value)
                  ELSE acc.status
    IN IF acc.raised \/ m_check # "True" \/ fitskey = "None" THEN acc
       ELSE IF value = 0
            THEN [acc EXCEPT !.log = Append(acc.log, Warn("not_found", iteration, k))]
            ELSE [port |-> IF bound /\ status = 1
                           THEN [p \in Ports |-> AddAttribute(acc.port[p], item, value)]
                           ELSE acc.port,
                  bound |-> bound,
                  status |-> status,
                  flags |-> [p \in Ports |-> IF p \in msgs THEN 1 ELSE acc.flags[p]],
                  log |-> acc.log \o said
                          \o (IF bound /\ status = -1
                              THEN <<Warn("changed", iteration, k)>> ELSE <<>>),
                  raised |-> ~bound]

RECURSIVE StaticLoop(_, _, _, _, _)
\* Line 174: for item in self.m_static.
StaticLoop(acc, k, file, iteration, end) ==
    IF k > Len(m_static) THEN acc
    ELSE StaticLoop(StaticItem(acc, k, file, iteration, end), k + 1, file, iteration, end)

\* _static_attributes(fits_file, header, iteration, end).
StaticAttributes(ps, file, iteration, end) ==
    StaticLoop([port |-> ps, bound |-> FALSE, status |-> 0,
                flags |-> [p \in Ports |-> 0], log |-> <<>>, raised |-> FALSE],
               1, file, iteration, end)

\* NonStaticFound without the lookup of the configured FITS key (lines 291-303).
NonStaticFoundItemOnly(item, file) == file.ns = "item"

\* Lines 283-303: whether the header gives a value for the non-static item.
NonStaticFound(item, file) ==
    \/ file.ns = "item"
    \/ /\ file.ns = "key"
       /\ config.key[item] # "None"

\* _non_static_attributes(header): the value goes to all four ports.
NonStaticAttributes(ps, file, iteration) ==
    IF m_check = "True" /\ NonStaticFound(m_non_static[1], file)
    THEN [p \in Ports |-> AppendAttributeData(ps[p], iteration)]
    ELSE ps

\* Lines 331-350: INDEX, FILES and PIXSCALE of one port of the file's nod.
ExtraPort(p, count, nimages, name) ==
    [p EXCEPT !.INDEX = p.INDEX \o [k \in 1..nimages |-> count + k - 1],
              !.FILES = Append(p.FILES, name),
              !.PIXSCALE = (p.PIXSCALE \/ p.exists)]

\* _extra_attributes(fits_file, location, shape, nod): the ports.
ExtraAttributes(ps, count, nimages, name, nod) ==
    [p \in Ports |->
        IF (nod = "A" /\ p \in {1, 2}) \/ (nod = "B" /\ p \in {3, 4})
        THEN ExtraPort(ps[p], count, nimages, name)
        ELSE ps[p]]

\* Line 352: the warning of a nod that is neither A nor B.
ExtraWarning(nod, iteration) ==
    IF nod \notin {"A", "B"} THEN <<Warn("nod_not_AB", iteration, 0)>> ELSE <<>>

\* NextCount with an assignment in place of the increment.
NextCountAssign(count, nimages) == nimages

\* Line 354: self.m_count += nimages.
NextCount(count, nimages) == count + nimages

\* Lines 607-613: flush the two ports of the nod.
FlushPorts(ps, nod) ==
    [p \in Ports |->
        IF (nod = "A" /\ p \in {1, 2}) \/ (nod = "B" /\ p \in {3, 4}) THEN Flush(ps[p]) ELSE ps[p]]

\* ------------------------------------------------------------------ run()
Raise(e) == /\ pc' = "error"
            /\ err' = e

\* InitializeError without the test of the tags (lines 114-124).
InitializeErrorNoTags ==
    IF m_scheme # "ABBA" /\ m_scheme # "ABAB"
    THEN "ValueError: Scheme keyword should be set to 'ABBA' or 'ABAB'"
    ELSE IF m_check \notin {"True", "False"}
         THEN "ValueError: Check port should be set to 'True' or 'False'"
         ELSE IF m_overwrite \notin {"True", "False"}
              THEN "ValueError: Overwrite port should be set to 'True' or 'False'"
              ELSE ""

\* InitializeError without the test of the scheme (lines 126-127).
InitializeErrorNoScheme ==
    IF \E a, b \in Ports : a < b /\ tags[a] = tags[b]
    THEN "ValueError: Output ports should have different tags"
    ELSE IF m_check \notin {"True", "False"}
         THEN "ValueError: Check port should be set to 'True' or 'False'"
         ELSE IF m_overwrite \notin {"True", "False"}
              THEN "ValueError: Overwrite port should be set to 'True' or 'False'"
              ELSE ""

\* Lines 114-133: the exception _initialize raises, "" if none.
InitializeError ==
    IF \E a, b \in Ports : a < b /\ tags[a] = tags[b]
    THEN "ValueError: Output ports should have different tags"
    ELSE IF m_scheme # "ABBA" /\ m_scheme # "ABAB"
         THEN "ValueError: Scheme keyword should be set to 'ABBA' or 'ABAB'"
         ELSE IF m_check \notin {"True", "False"}
              THEN "ValueError: Check port should be set to 'True' or 'False'"
              ELSE IF m_overwrite \notin {"True", "False"}
                   THEN "ValueError: Overwrite port should be set to 'True' or 'False'"
                   ELSE ""

\* Lines 135-149: data and attributes of the four ports are deleted.
ClearedPorts(ps) == [p \in Ports |-> EmptyPort]

\* _initialize().
Initialize ==
    /\ pc = "init"
    /\ IF InitializeError # ""
       THEN Raise(InitializeError) /\ UNCHANGED port
       ELSE /\ port' = ClearedPorts(port)
            /\ pc' = "uncompress"
            /\ UNCHANGED err
    /\ UNCHANGED <<cfgVars, m_count, dir, uncVars, files, i, hdus, log>>

\* ------------------------------------------------------------------ uncompress()
\* Line 409: math.ceil(no_files / cpu).
NumBatches(no_files, cpu) == (no_files + cpu - 1) \div cpu

\* Line 410: last_file of batch i.
LastFile(no_files, cpu, b) == Min({cpu * (b + 1), no_files + 1 - (cpu * b), no_files})

\* Line 411: files_compressed[cpu * i:last_file].
Chunk(fc, cpu, b) == SubSeq(fc, cpu * b + 1, LastFile(Len(fc), cpu, b))

\* Lines 388-407: the compressed files are listed.
UncompressBegin ==
    /\ pc = "uncompress"
    /\ \E l \in Listings({k \in 1..Len(dir) : dir[k] = "fits.Z"}) :
          /\ files_compressed' = l
          /\ pc' = IF l = <<>> THEN "list" ELSE "batch"
    /\ bi' = 0
    /\ UNCHANGED <<cfgVars, m_count, dir, port, err, jobs, nstarted, njoined, tasks,
                   files, i, hdus, log>>

\* Lines 409-417: the threads of batch i are created.
BatchBegin ==
    /\ pc = "batch"
    /\ bi < NumBatches(Len(files_compressed), config.CPU)
    /\ LET chunk == Chunk(files_compressed, config.CPU, bi)
       IN /\ tasks' = tasks \o [k \in 1..Len(chunk) |->
                                   [file |-> chunk[k], batch |-> bi, st |-> "created",
                                    ran |-> <<>>]]
          /\ jobs' = [k \in 1..Len(chunk) |-> Len(tasks) + k]
          /\ IF chunk = <<>>
             THEN pc' = "batch" /\ bi' = bi + 1
             ELSE pc' = "start" /\ bi' = bi
    /\ nstarted' = 0
    /\ njoined' = 0
    /\ UNCHANGED <<cfgVars, m_count, dir, port, err, files_compressed, files, i, hdus, log>>

\* Lines 419-420: j.start() of the next thread of the batch.
StartJob ==
    /\ pc = "start"
    /\ tasks' = [tasks EXCEPT ![jobs[nstarted + 1]] =
                     [file |-> tasks[jobs[nstarted + 1]].file,
                      batch |-> tasks[jobs[nstarted + 1]].batch,
                      st |-> "primary", ran |-> <<>>]]
    /\ nstarted' = nstarted + 1
    /\ pc' = IF nstarted + 1 = Len(jobs) THEN "join" ELSE "start"
    /\ UNCHANGED <<cfgVars, m_count, dir, port, err, files_compressed, bi, jobs, njoined,
                   files, i, hdus, log>>

\* The task after one command: its new state, and the command in what it ran.
Ran(task, st, command, out) ==
    [file |-> task.file, batch |-> task.batch, st |-> st,
     ran |-> Append(task.ran, [command |-> command, out |-> out])]

\* TaskPrimary with an except clause that catches CalledProcessError as well.
TaskPrimaryCatchAll ==
    \E t \in 1..Len(tasks), out \in {"ok", "error", "not_found"} :
        /\ tasks[t].st = "primary"
        /\ tasks' = [tasks EXCEPT ![t] = Ran(tasks[t], IF out = "ok" THEN "done" ELSE "fallback",
                                             "uncompress", out)]
        /\ dir' = IF out = "ok" THEN [dir EXCEPT ![tasks[t].file] = "fits"] ELSE dir
        /\ UNCHANGED <<cfgVars, m_count, port, pc, err, files_compressed, bi, jobs,
                       nstarted, njoined, files, i, hdus, log>>

\* Lines 366-370: a thread runs 'uncompress': it succeeds, exits with an error
\* (CalledProcessError, not caught: the thread ends) or is not found.
TaskPrimary ==
    \E t \in 1..Len(tasks), out \in {"ok", "error", "not_found"} :
        /\ tasks[t].st = "primary"
        /\ tasks' = [tasks EXCEPT ![t] = Ran(tasks[t], CASE out = "ok" -> "done"
                                                         [] out = "error" -> "failed"
                                                         [] OTHER -> "fallback",
                                             "uncompress", out)]
        /\ dir' = IF out = "ok" THEN [dir EXCEPT ![tasks[t].file] = "fits"] ELSE dir
        /\ UNCHANGED <<cfgVars, m_count, port, pc, err, files_compressed, bi, jobs,
                       nstarted, njoined, files, i, hdus, log>>

\* Lines 370-374: the thread runs 'gunzip -d'; any failure ends the thread.
TaskFallback ==
    \E t \in 1..Len(tasks), out \in {"ok", "error"} :
        /\ tasks[t].st = "fallback"
        /\ tasks' = [tasks EXCEPT ![t] = Ran(tasks[t], IF out = "ok" THEN "done" ELSE "failed",
                                             "gunzip -d", out)]
        /\ dir' = IF out = "ok" THEN [dir EXCEPT ![tasks[t].file] = "fits"] ELSE dir
        /\ UNCHANGED <<cfgVars, m_count, port, pc, err, files_compressed, bi, jobs,
                       nstarted, njoined, files, i, hdus, log>>

Terminated(t) == tasks[t].st \in {"done", "failed"}

\* JoinJob that does not wait for the thread to end.
JoinJobNoWait ==
    /\ pc = "join"
    /\ njoined' = njoined + 1
    /\ IF njoined + 1 = Len(jobs)
       THEN pc' = "batch" /\ bi' = bi + 1
       ELSE pc' = "join" /\ bi' = bi
    /\ UNCHANGED <<cfgVars, m_count, dir, port, err, files_compressed, jobs, nstarted,
                   tasks, files, i, hdus, log>>

\* Lines 422-423: j.join() returns once the thread has ended, however it ended.
JoinJob ==
    /\ pc = "join"
    /\ Terminated(jobs[njoined + 1])
    /\ njoined' = njoined + 1
    /\ IF njoined + 1 = Len(jobs)
       THEN pc' = "batch" /\ bi' = bi + 1
       ELSE pc' = "join" /\ bi' = bi
    /\ UNCHANGED <<cfgVars, m_count, dir, port, err, files_compressed, jobs, nstarted,
                   tasks, files, i, hdus, log>>

\* Line 409: the loop over the batches ends and uncompress() returns.
UncompressReturn ==
    /\ pc = "batch"
    /\ bi >= NumBatches(Len(files_compressed), config.CPU)
    /\ pc' = "list"
    /\ UNCHANGED <<cfgVars, m_count, dir, port, err, uncVars, files, i, hdus, log>>

\* ------------------------------------------------------------------ the files
\* ListFiles without the assert of line 587: the loop over no file ends at once.
ListFilesNoAssert ==
    /\ pc = "list"
    /\ files' = SortedSeq({k \in 1..Len(dir) : dir[k] = "fits"})
    /\ pc' = IF files' = <<>> THEN "finalize" ELSE "process"
    /\ i' = 0
    /\ UNCHANGED <<cfgVars, m_count, dir, port, err, uncVars, hdus, log>>

\* Lines 580-587: the '.fits' files, sorted; none is an AssertionError.
ListFiles ==
    /\ pc = "list"
    /\ LET fs == SortedSeq({k \in 1..Len(dir) : dir[k] = "fits"})
       IN IF fs = <<>>
          THEN Raise("AssertionError: No FITS files found") /\ UNCHANGED files
          ELSE /\ files' = fs
               /\ pc' = "process"
               /\ UNCHANGED err
    /\ i' = 0
    /\ UNCHANGED <<cfgVars, m_count, dir, port, uncVars, hdus, log>>

\* Lines 589-613: one iteration of the loop over the files, reading file f.
ProcessFile(Choices) ==
    /\ pc = "process"
    /\ \E f \in Choices :
          LET r == OpenFit(f, i)
              appended == AppendStacks(port, r, i)
              st == StaticAttributes(appended, f, i, Len(files) - 1)
              nonst == NonStaticAttributes(st.port, f, i)
              extra == ExtraAttributes(nonst, m_count, r.nimages, files[i + 1], r.nod)
          IN /\ hdus' = Append(hdus, f)
             /\ IF st.raised
                THEN /\ Raise("UnboundLocalError: status")
                     /\ port' = st.port
                     /\ log' = log \o r.warns \o st.log
                     /\ UNCHANGED <<m_count, i>>
                ELSE /\ port' = FlushPorts(extra, r.nod)
                     /\ log' = log \o r.warns \o st.log \o ExtraWarning(r.nod, i)
                     /\ m_count' = NextCount(m_count, r.nimages)
                     /\ i' = i + 1
                     /\ pc' = IF i + 1 = Len(files) THEN "finalize" ELSE "process"
                     /\ UNCHANGED err
    /\ UNCHANGED <<cfgVars, dir, uncVars, files>>

\* Lines 618-621: the history of port p.
HistoryOf(p) == CASE p = 1 -> "Nod A, Chop A" [] p = 2 -> "Nod A, Chop B"
                  [] p = 3 -> "Nod B, Chop A" [] OTHER -> "Nod B, Chop B"

\* Finalize that leaves out the ports without dataset.
FinalizeWritten ==
    /\ pc = "finalize"
    /\ port' = [p \in Ports |->
                   IF port[p].exists
                   THEN [port[p] EXCEPT !.history = HistoryOf(p), !.closed = TRUE]
                   ELSE port[p]]
    /\ pc' = "done"
    /\ UNCHANGED <<cfgVars, m_count, dir, err, uncVars, files, i, hdus, log>>

\* Lines 618-625: add_history and close_port of the four ports.
Finalize ==
    /\ pc = "finalize"
    /\ port' = [p \in Ports |-> [port[p] EXCEPT !.history = HistoryOf(p), !.closed = TRUE]]
    /\ pc' = "done"
    /\ UNCHANGED <<cfgVars, m_count, dir, err, uncVars, files, i, hdus, log>>

\* run() is called again on the instance after it returned: the locals of run()
\* and uncompress() are new, the attributes of the instance (m_count, set in
\* __init__ only), the database and the directory are as the last call left them.
RunAgain ==
    /\ pc = "done"
    /\ invocation < MaxRuns
    /\ invocation' = invocation + 1
    /\ pc' = "init"
    /\ files_compressed' = <<>>
    /\ bi' = 0
    /\ jobs' = <<>>
    /\ nstarted' = 0
    /\ njoined' = 0
    /\ tasks' = <<>>
    /\ files' = <<>>
    /\ i' = 0
    /\ hdus' = <<>>
    /\ log' = <<>>
    /\ UNCHANGED <<tags, m_scheme, m_check, m_overwrite, config, m_count, dir, port, err>>

\* ------------------------------------------------------------------ specifications
GoodTags == <<"noda_chopa", "noda_chopb", "nodb_chopa", "nodb_chopb">>
DupTags == <<"noda_chopa", "noda_chopb", "noda_chopa", "nodb_chopb">>
Keys == [INSTRUMENT |-> "INSTRUME", DIT |-> "ESO DET DIT", NDIT |-> "ESO DET NDIT"]
KeysNone == [INSTRUMENT |-> "None", DIT |-> "ESO DET DIT", NDIT |-> "None"]

\* Directories of at most n files, of which only the first may be compressed.
Dirs(n) == UNION {{d \in [1..k -> {"fits", "fits.Z"}] : \A j \in 2..k : d[j] = "fits"} :
                     k \in 0..n}

\* Directories of at most z compressed files and at most one plain file.
DirsZ(z) == UNION {{d \in [1..k -> {"fits", "fits.Z"}] :
                       /\ Cardinality({j \in 1..k : d[j] = "fits.Z"}) <= z
                       /\ Cardinality({j \in 1..k : d[j] = "fits"}) <= 1} :
                      k \in 0..(z + 1)}

InitWith(TagSets, Schemes, Checks, Overwrites, KeySets, Cpus, DirSet, Priors) ==
    /\ tags \in TagSets
    /\ m_scheme \in Schemes
    /\ m_check \in Checks
    /\ m_overwrite \in Overwrites
    /\ config \in [CPU : Cpus, key : KeySets]
    /\ dir \in DirSet
    /\ port \in {[p \in Ports |-> q] : q \in Priors}
    /\ m_count = 0
    /\ pc = "init"
    /\ err = ""
    /\ files_compressed = <<>>
    /\ bi = 0
    /\ jobs = <<>>
    /\ nstarted = 0
    /\ njoined = 0
    /\ tasks = <<>>
    /\ files = <<>>
    /\ i = 0
    /\ hdus = <<>>
    /\ log = <<>>
    /\ invocation = 1

Threads == UncompressBegin \/ BatchBegin \/ StartJob \/ TaskPrimary \/ TaskFallback
              \/ JoinJob \/ UncompressReturn

\* The run over representative files.
Init == InitWith({GoodTags, DupTags}, {"ABBA", "ABAB", "AABB"}, {"True", "False"}, {"True"},
                 {Keys}, {1}, Dirs(MaxFiles), {EmptyPort, PriorPort})
Next == Initialize \/ Threads \/ ListFiles \/ ProcessFile(RunFiles) \/ Finalize
Spec == Init /\ [][Next]_vars

\* The run over one file with every burst.
InitFit == InitWith({GoodTags}, {"ABBA", "ABAB"}, {"True"}, {"True"},
                    {Keys}, {1}, Dirs(1), {EmptyPort})
NextFit == Initialize \/ Threads \/ ListFiles \/ ProcessFile(FitFiles) \/ Finalize
SpecFit == InitFit /\ [][NextFit]_vars

\* The run over files with and without the nod key.
InitNod == InitWith({GoodTags}, {"ABBA", "ABAB"}, {"True", "False", "yes"},
                    {"True", "False", "yes"}, {Keys}, {1}, Dirs(MaxNodFiles),
                    {EmptyPort, PriorPort})
NextNod == Initialize \/ Threads \/ ListFiles \/ ProcessFile(NodFiles) \/ Finalize
SpecNod == InitNod /\ [][NextNod]_vars

\* The run over files that differ in their header.
InitAttr == InitWith({GoodTags}, {"ABAB"}, {"True", "False"}, {"True"},
                     {Keys, KeysNone}, {1}, Dirs(MaxAttrFiles), {EmptyPort})
NextAttr == Initialize \/ Threads \/ ListFiles \/ ProcessFile(AttrFiles) \/ Finalize
SpecAttr == InitAttr /\ [][NextAttr]_vars

\* The run over a directory of compressed files.
InitUnc == InitWith({GoodTags}, {"ABAB"}, {"True"}, {"True"},
                    {Keys}, 1..MaxCpu, DirsZ(MaxCompressed), {EmptyPort})
NextUnc == Initialize \/ Threads \/ ListFiles \/ ProcessFile(UncFiles) \/ Finalize
SpecUnc == InitUnc /\ [][NextUnc]_vars

\* Inputs of the repeated-run specification.
AgainFiles == {FileOf(n, b, StaticOf(1, 1), "item") :
                  n \in {"A", "B", "none"}, b \in {<<F1>>, <<F1, F2>>, <<F1, Fo, F2>>}}

\* run() called up to MaxRuns times on one instance.
InitAgain == InitWith({GoodTags}, {"ABBA", "ABAB"}, {"True", "False"}, {"True"},
                      {Keys}, {1}, Dirs(MaxAgainFiles), {EmptyPort})
NextAgain == Initialize \/ Threads \/ ListFiles \/ ProcessFile(AgainFiles) \/ Finalize
                \/ RunAgain
SpecAgain == InitAgain /\ [][NextAgain]_vars
\* ------------------------------------------------------------------ claims
PortsOfNod(X) == IF X = "A" THEN {1, 2} ELSE IF X = "B" THEN {3, 4} ELSE {}
Started == pc \in {"process", "finalize", "done"}
Tagged(frames) == Cardinality({k \in 1..Len(frames) : frames[k].cycle \in {"HCYCLE1", "HCYCLE2"}})
Indices(frames, cycle) == SelectSeq([k \in 1..Len(frames) |-> k], LAMBDA k : frames[k].cycle = cycle)
Sources(images, it) ==
    LET own == SelectSeq(images, LAMBDA e : e.it = it) IN [k \in 1..Len(own) |-> own[k].src]

RECURSIVE SumOver(_, _, _)
\* The sum of Op(hdus[k], k - 1) over the first n files opened.
SumOver(Op(_, _), n, acc) ==
    IF n = 0 THEN acc ELSE SumOver(Op, n - 1, acc + Op(hdus[n], n - 1))

\* C1: after run(), for each nod X the frames of streams (X, chop A) and
\* (X, chop B) together number the frames tagged HCYCLE1 or HCYCLE2 in the files
\* of nod X, a tagged frame with pixel [0,0] = 0 included.
C1_Claim ==
    pc = "done" =>
        \A X \in {"A", "B"} :
            Len(port[Min(PortsOfNod(X))].images) + Len(port[Max(PortsOfNod(X))].images)
                = SumOver(LAMBDA f, k : IF NodOf(f, k) = X THEN Tagged(f.frames) ELSE 0,
                          Len(hdus), 0)

\* C2 as claimed: m_count is the number of frames classified into a chop bucket
\* in the files processed so far.
C2_Claim ==
    Started => m_count = SumOver(LAMBDA f, k : Tagged(f.frames), i, 0)

\* C2 as amended: m_count never decreases and is the number of all frames of the
\* files processed so far, frames with an unrecognized chop tag included.
C2_Count ==
    /\ [](m_count = SumOver(LAMBDA f, k : Len(f.frames), i, 0))
    /\ [][m_count' >= m_count]_vars

C2_Witness ==
    /\ pc = "done"
    /\ i >= 2
    /\ \E k \in 1..i : Tagged(hdus[k].frames) < Len(hdus[k].frames)
    /\ m_count > SumOver(LAMBDA f, k : Tagged(f.frames), i, 0)

ChangedCount(l, k, it) ==
    Len(SelectSeq(l, LAMBDA e : e.w = "changed" /\ e.it = it /\ e.arg = k))

\* C3: with strict checking, a file whose value of a static attribute equals the
\* value recorded on its stream leaves it unchanged without warning; a file whose
\* value differs gives exactly one 'has changed' warning, the run goes on and the
\* stream records the file's value.
C3_Claim ==
    [][(hdus' # hdus /\ m_check = "True") =>
          LET f == hdus'[Len(hdus')]
          IN \A k \in 1..Len(m_static), p \in PortsOfNod(NodOf(f, i)) :
                LET item == m_static[k]
                    v == f.static[item]
                    r == port[p].attrs[item]
                IN (config.key[item] # "None" /\ v # 0 /\ r # 0) =>
                      IF v = r
                      THEN port'[p].attrs[item] = r /\ ChangedCount(log', k, i) = 0
                      ELSE /\ ChangedCount(log', k, i) = 1
                           /\ pc' # "error"
                           /\ port'[p].attrs[item] = v]_vars

\* The nod of position k under a scheme, as the specification states it.
SchemeNod(scheme, k) ==
    IF scheme = "ABBA" THEN (IF k % 4 \in {0, 3} THEN "A" ELSE "B")
    ELSE (IF k % 2 = 0 THEN "A" ELSE "B")

\* C4: a file without nod key at position k of the sorted list has the nod of k
\* under the scheme, and its frames are in the two streams of that nod only.
C4_NodFallback ==
    /\ \A a, b \in 1..Len(files) : a < b => files[a] < files[b]
    /\ \A k \in 0..(i - 1) :
          hdus[k + 1].nodpos = "none" =>
              \A p \in Ports :
                  /\ (p \in PortsOfNod(SchemeNod(m_scheme, k)))
                        <=> (\E e \in Range(port[p].images) : e.it = k)
                  /\ (p \in PortsOfNod(SchemeNod(m_scheme, k)))
                        <=> (\E e \in 1..Len(port[p].FILES) : port[p].FILES[e] = files[k + 1])

C4_Witness ==
    /\ pc = "done"
    /\ m_scheme = "ABBA"
    /\ i = 4
    /\ \A k \in 1..4 : hdus[k].nodpos = "none"
    /\ \E e \in Range(port[1].images) : e.it = 3
    /\ \E e \in Range(port[3].images) : e.it = 2

\* C5 as claimed: a run with a file that lacks the nod key emits the warning of
\* the missing key exactly once.
C5_Claim ==
    (pc = "done" /\ \E k \in 1..Len(hdus) : hdus[k].nodpos = "none")
        => Count("nodpos_missing") = 1

\* C5 as amended: the warning is emitted exactly once when the first file of the
\* sorted list lacks the nod key, and never when the first file has it, whatever
\* later files lack.
C5_FirstFileOnly ==
    Count("nodpos_missing") = IF Len(hdus) >= 1 /\ hdus[1].nodpos = "none" THEN 1 ELSE 0

C5_Witness ==
    /\ pc = "done"
    /\ Len(hdus) >= 2
    /\ hdus[1].nodpos # "none"
    /\ hdus[2].nodpos = "none"
    /\ Count("nodpos_missing") = 0

\* C6: for one file, the chop-A stack is exactly the frames tagged HCYCLE1, the
\* chop-B stack exactly those tagged HCYCLE2, every other frame gives one warning,
\* and the imbalance warning is given iff the two stacks differ in size. Files
\* with an all-zero frame are left out of the statement.
C6_Claim ==
    (/\ Len(hdus) = 1
     /\ NodOf(hdus[1], 0) \in {"A", "B"}
     /\ pc # "error"
     /\ \A k \in 1..Len(hdus[1].frames) : hdus[1].frames[k].img # "zero") =>
        LET fr == hdus[1].frames
            pa == Min(PortsOfNod(NodOf(hdus[1], 0)))
            pb == Max(PortsOfNod(NodOf(hdus[1], 0)))
        IN /\ Sources(port[pa].images, 0) = Indices(fr, "HCYCLE1")
           /\ Sources(port[pb].images, 0) = Indices(fr, "HCYCLE2")
           /\ Count("chop_not_found") = Len(fr) - Tagged(fr)
           /\ (Count("not_equal") = 1) <=> (Len(port[pa].images) # Len(port[pb].images))
           /\ Count("not_equal") <= 1

\* The files among the first n opened whose header gives the non-static attribute.
WithNonStatic(n) ==
    {k \in 1..n : \/ hdus[k].ns = "item"
                  \/ hdus[k].ns = "key" /\ config.key[m_non_static[1]] # "None"}

\* C7 as claimed: on every stream the non-static attribute has one value per
\* frame of the stream.
C7_Claim ==
    Started => \A p \in Ports : Len(port[p].ns) = Len(port[p].images)

\* C7 as amended: on every one of the four streams the non-static attribute has
\* one value per processed file whose header gives it when checking is strict,
\* and none when it is lenient, whatever the frames routed to the stream.
C7_PerFile ==
    Started =>
        \A p \in Ports :
            Len(port[p].ns) = IF m_check = "True" THEN Cardinality(WithNonStatic(i)) ELSE 0

C7_Witness ==
    /\ pc = "done"
    /\ m_check = "True"
    /\ i = 2
    /\ NodOf(hdus[1], 0) = "A"
    /\ NodOf(hdus[2], 1) = "A"
    /\ hdus[1].ns = "key"
    /\ Len(port[1].ns) = 2
    /\ Len(port[1].images) = 4
    /\ Len(port[3].ns) = 2
    /\ Len(port[3].images) = 0

\* C8: processing a file of nod X changes nothing on the two streams of the
\* other nod.
C8_Claim ==
    [][hdus' # hdus =>
          LET X == NodOf(hdus'[Len(hdus')], i)
          IN X \in {"A", "B"} =>
                \A q \in Ports \ PortsOfNod(X) : port'[q] = port[q]]_vars

Returned == pc \in {"list", "process", "finalize", "done"}
TasksOf(f) == {t \in 1..Len(tasks) : tasks[t].file = f}
Running == {t \in 1..Len(tasks) : tasks[t].st \in {"primary", "fallback"}}

\* C9: uncompress() hands every compressed file to exactly one task, in batches
\* of at most cpu files.
C9_Claim ==
    Returned =>
        /\ \A f \in Range(files_compressed) : Cardinality(TasksOf(f)) = 1
        /\ \A b \in 0..bi : Cardinality({t \in 1..Len(tasks) : tasks[t].batch = b}) <= config.CPU

\* C10: a task of a batch starts only when every task of the earlier batches has
\* ended, at most cpu tasks run at a time, running tasks have different files,
\* and no file is opened before every task has ended.
C10_BatchJoin ==
    /\ \A s, t \in 1..Len(tasks) :
          (tasks[s].batch < tasks[t].batch /\ tasks[t].st # "created") => Terminated(s)
    /\ Cardinality(Running) <= config.CPU
    /\ \A s, t \in Running : s # t => tasks[s].file # tasks[t].file
    /\ (Len(hdus) > 0 \/ Started) => \A t \in 1..Len(tasks) : Terminated(t)

C10_Witness ==
    /\ \E t \in Running : tasks[t].batch = 1
    /\ \E s \in 1..Len(tasks) : tasks[s].batch = 0 /\ tasks[s].st = "failed"

Failed == {t \in 1..Len(tasks) : tasks[t].st = "failed"}

\* C11: once a decompression task has failed, no later batch is dispatched, no
\* input file is parsed and no output stream is closed.
C11_Claim ==
    \A t \in Failed :
        /\ \A s \in 1..Len(tasks) : tasks[s].batch <= tasks[t].batch
        /\ hdus = <<>>
        /\ \A p \in Ports : ~port[p].closed

TaskRan(t) == [k \in 1..Len(tasks[t].ran) |-> <<tasks[t].ran[k].command, tasks[t].ran[k].out>>]

\* C19: a task runs 'uncompress' first; it runs 'gunzip -d', once and on the same
\* file, only after 'uncompress' was not found; an error exit of 'uncompress'
\* ends the task as failed without fallback, and a failure of the fallback ends
\* it as failed without another command.
C19_Fallback ==
    \A t \in 1..Len(tasks) :
        CASE tasks[t].st \in {"created", "primary"} -> TaskRan(t) = <<>>
          [] tasks[t].st = "fallback" -> TaskRan(t) = <<<<"uncompress", "not_found">>>>
          [] tasks[t].st = "done" ->
                TaskRan(t) \in {<<<<"uncompress", "ok">>>>,
                                <<<<"uncompress", "not_found">>, <<"gunzip -d", "ok">>>>}
          [] tasks[t].st = "failed" ->
                TaskRan(t) \in {<<<<"uncompress", "error">>>>,
                                <<<<"uncompress", "not_found">>, <<"gunzip -d", "error">>>>}

C19_Witness ==
    /\ \E t \in Failed : TaskRan(t) = <<<<"uncompress", "error">>>>
    /\ \E t \in Failed : TaskRan(t) = <<<<"uncompress", "not_found">>, <<"gunzip -d", "error">>>>
    /\ \E t \in 1..Len(tasks) :
          tasks[t].st = "done" /\ TaskRan(t) = <<<<"uncompress", "not_found">>, <<"gunzip -d", "ok">>>>

DuplicateTags == \E a, b \in Ports : a < b /\ tags[a] = tags[b]
TagsError == "ValueError: Output ports should have different tags"
SchemeError == "ValueError: Scheme keyword should be set to 'ABBA' or 'ABAB'"
NoFilesError == "AssertionError: No FITS files found"

\* A step that clears no port, starts no decompression and lists or reads no file.
NothingDone ==
    /\ port' = port
    /\ files_compressed' = files_compressed
    /\ tasks' = tasks
    /\ dir' = dir
    /\ files' = files
    /\ hdus' = hdus

\* C12: with two equal output tags run() ends with the duplicate-tag error, and
\* no step of it clears a port, starts the decompression or lists or reads a file.
C12_DuplicateTags ==
    /\ [](DuplicateTags => /\ pc \in {"init", "error"}
                           /\ pc = "error" => err = TagsError)
    /\ [][DuplicateTags => NothingDone]_vars

C12_Witness ==
    /\ DuplicateTags
    /\ pc = "error"
    /\ err = TagsError
    /\ port[1] = PriorPort
    /\ \E k \in 1..Len(dir) : dir[k] = "fits.Z"
    /\ tasks = <<>>

\* C13: with a scheme other than 'ABBA' and 'ABAB' run() ends in validation with
\* the scheme error (with the duplicate-tag error, tested first, when the tags
\* are equal as well), and no step of it clears a port, starts the decompression
\* or lists or reads a file.
C13_Scheme ==
    /\ [](m_scheme \notin {"ABBA", "ABAB"} =>
             /\ pc \in {"init", "error"}
             /\ pc = "error" => err = IF DuplicateTags THEN TagsError ELSE SchemeError)
    /\ [][m_scheme \notin {"ABBA", "ABAB"} => NothingDone]_vars

C13_Witness ==
    /\ m_scheme = "AABB"
    /\ ~DuplicateTags
    /\ pc = "error"
    /\ err = SchemeError
    /\ port[1] = PriorPort
    /\ Len(dir) >= 1
    /\ \A k \in 1..Len(dir) : dir[k] = "fits"
    /\ hdus = <<>>

\* C14: initialization deletes the data and attributes of the four streams when
\* overwrite is True and leaves them unchanged when overwrite is False.
C14_Claim ==
    [][(pc = "init" /\ pc' = "uncompress") =>
          /\ m_overwrite = "True" => port' = [p \in Ports |-> EmptyPort]
          /\ m_overwrite = "False" => port' = port]_vars

\* C15: when no '.fits' file is listed, run() ends with the 'No FITS files found'
\* error: no file is opened, nothing is appended to a stream, and no stream gets
\* a history or is closed.
C15_NoFiles ==
    /\ [][(pc = "list" /\ \A k \in 1..Len(dir) : dir[k] # "fits") =>
              /\ pc' = "error"
              /\ err' = NoFilesError
              /\ port' = port
              /\ hdus' = hdus]_vars
    /\ [](err = NoFilesError =>
              /\ pc = "error"
              /\ hdus = <<>>
              /\ \A p \in Ports : /\ port[p].images = <<>>
                                   /\ port[p].ns = <<>>
                                   /\ port[p].INDEX = <<>>
                                   /\ port[p].FILES = <<>>
                                   /\ \A a \in Range(m_static) : port[p].attrs[a] = 0
                                   /\ port[p].flushes = 0
                                   /\ port[p].history = ""
                                   /\ ~port[p].closed)

C15_Witness ==
    /\ pc = "error"
    /\ err = NoFilesError
    /\ dir = <<"fits.Z">>
    /\ Failed = {1}

\* The steps of run() from one position to another.
Phases ==
    {<<"init", "uncompress">>, <<"init", "error">>, <<"uncompress", "batch">>,
     <<"uncompress", "list">>, <<"batch", "start">>, <<"start", "join">>,
     <<"join", "batch">>, <<"batch", "list">>, <<"list", "process">>,
     <<"list", "error">>, <<"process", "finalize">>, <<"process", "error">>,
     <<"finalize", "done">>}

Label(p) == <<"Nod A, Chop A", "Nod A, Chop B", "Nod B, Chop A", "Nod B, Chop B">>[p]

FilesOfPort(p) ==
    Cardinality({k \in 1..Len(hdus) : p \in PortsOfNod(NodOf(hdus[k], k - 1))})

\* C16: run() goes through validation, decompression, the files in sorted order
\* and finalization in that order; a stream gets its label and is closed in the
\* one step that follows the last file, the four together, and a run that ends
\* without error leaves every stream, written or not, labelled and closed.
C16_Phases ==
    /\ [][pc' # pc => <<pc, pc'>> \in Phases]_vars
    /\ [][pc \notin {"done", "error"}]_vars
    /\ [][(\E p \in Ports : \/ port'[p].closed # port[p].closed
                             \/ port'[p].history # port[p].history) =>
              /\ pc = "finalize"
              /\ pc' = "done"
              /\ i = Len(files)
              /\ Len(hdus) = Len(files)
              /\ \A p \in Ports : /\ ~port[p].closed
                                   /\ port'[p].closed
                                   /\ port'[p].history = Label(p)
                                   /\ port'[p].images = port[p].images
                                   /\ port'[p].flushes = FilesOfPort(p)]_vars
    /\ [](/\ \A a, b \in 1..Len(files) : a < b => files[a] < files[b]
          /\ \A p \in Ports : \A a, b \in 1..Len(port[p].FILES) :
                 a < b => port[p].FILES[a] < port[p].FILES[b]
          /\ pc \in {"finalize", "done"} => (i = Len(files) /\ i >= 1)
          /\ pc = "done" => \A p \in Ports : port[p].closed /\ port[p].history = Label(p))

C16_Witness ==
    /\ pc = "done"
    /\ Len(files) = 3
    /\ \E t \in 1..Len(tasks) : tasks[t].st = "done"
    /\ ~port[3].exists
    /\ port[3].closed
    /\ port[3].history = "Nod B, Chop A"
    /\ port[1].flushes = 3

LogCount(w, it, arg) == Len(SelectSeq(log, LAMBDA e : e.w = w /\ e.it = it /\ e.arg = arg))
KeyMissing(f, j) == config.key[m_static[j]] # "None" /\ f.static[m_static[j]] = 0

\* C17 as claimed: the warning of a static key missing from the header is given
\* only while the last file is processed.
C17_Claim ==
    Started => \A e \in Range(log) : e.w = "not_found" => e.it = Len(files) - 1

\* C17 as amended: with strict checking the 'not found in the FITS header'
\* warning is given once for every processed file whose header lacks the key of
\* a static attribute, whatever the position of the file, and never otherwise;
\* the message given for the last file only, once per stream, is 'the output tag
\* is empty'.
C17_EveryFile ==
    /\ \A k \in 1..i, j \in 1..Len(m_static) :
          LogCount("not_found", k - 1, j)
              = IF m_check = "True" /\ KeyMissing(hdus[k], j) THEN 1 ELSE 0
    /\ \A e \in Range(log) :
          e.w = "tag_empty" => /\ e.it = Len(files) - 1
                               /\ LogCount("tag_empty", e.it, e.arg) = 1

C17_Witness ==
    /\ pc = "done"
    /\ i = 2
    /\ KeyMissing(hdus[1], 1)
    /\ KeyMissing(hdus[2], 1)
    /\ LogCount("not_found", 0, 1) = 1
    /\ LogCount("not_found", 1, 1) = 1
    /\ LogCount("tag_empty", 1, 3) = 1
    /\ LogCount("tag_empty", 0, 3) = 0

\* C18: a lenient run (check False) over files that define the static attributes
\* ends with a static attribute recorded on every stream that received frames.
C18_Claim ==
    (/\ pc = "done"
     /\ m_check = "False"
     /\ \A k \in 1..Len(hdus), j \in 1..Len(m_static) : hdus[k].static[m_static[j]] # 0) =>
        \A p \in Ports :
            port[p].images # <<>> => \E a \in Range(m_static) : port[p].attrs[a] # 0

\* C20: a static attribute whose configured key is 'None' is never created or
\* compared on a stream, and no 'has changed' or 'not found' warning names it,
\* whatever the headers of the files hold.
C20_NotApplicable ==
    \A j \in 1..Len(m_static) :
        config.key[m_static[j]] = "None" =>
            /\ \A p \in Ports : port[p].attrs[m_static[j]] = 0
            /\ \A e \in Range(log) : e.w \in {"changed", "not_found"} => e.arg # j

C20_Witness ==
    /\ pc = "done"
    /\ m_check = "True"
    /\ config.key["INSTRUMENT"] = "None"
    /\ i = 2
    /\ hdus[1].static["INSTRUMENT"] = 1
    /\ hdus[2].static["INSTRUMENT"] = 2
    /\ port[1].attrs["DIT"] = 1
    /\ port[1].attrs["INSTRUMENT"] = 0

Ascending(q) == \A a, b \in 1..Len(q) : a < b => q[a] < q[b]

\* C21: in one file every frame goes to at most one chop buffer, the two write
\* counts and the number of frames of unrecognized tag add up to the number of
\* frames, neither count exceeds it, and each returned stack holds its frames in
\* the order of the file.
C21_Partition ==
    Len(hdus) = 1 =>
        LET fr == hdus[1].frames
            r == OpenFit(hdus[1], 0)
            a == [k \in 1..Len(r.chopa) |-> r.chopa[k].src]
            b == [k \in 1..Len(r.chopb) |-> r.chopb[k].src]
        IN /\ Range(a) \cap Range(b) = {}
           /\ Range(a) \subseteq Range(Indices(fr, "HCYCLE1"))
           /\ Range(b) \subseteq Range(Indices(fr, "HCYCLE2"))
           /\ r.count_im_1 + r.count_im_2 + Count("chop_not_found") = Len(fr)
           /\ r.count_im_1 <= Len(fr)
           /\ r.count_im_2 <= Len(fr)
           /\ Ascending(a)
           /\ Ascending(b)
           /\ NodOf(hdus[1], 0) \in {"A", "B"} =>
                 /\ Sources(port[Min(PortsOfNod(NodOf(hdus[1], 0)))].images, 0) = a
                 /\ Sources(port[Max(PortsOfNod(NodOf(hdus[1], 0)))].images, 0) = b

C21_Witness ==
    /\ pc = "done"
    /\ hdus[1].frames = <<F2, F1, F1>>
    /\ hdus[1].nodpos = "B"
    /\ Sources(port[3].images, 0) = <<2, 3>>
    /\ Sources(port[4].images, 0) = <<1>>

\* C22: processing a file whose nod key is neither 'A' nor 'B' appends no frame,
\* no INDEX entry and no FILES entry to a stream, flushes no stream, gives the
\* 'nod is not A or B' warning, and the run goes on with the next file.
C22_Claim ==
    [][(hdus' # hdus /\ hdus'[Len(hdus')].nodpos \notin {"A", "B", "none"}) =>
          /\ \A p \in Ports : /\ port'[p].images = port[p].images
                               /\ port'[p].INDEX = port[p].INDEX
                               /\ port'[p].FILES = port[p].FILES
                               /\ port'[p].flushes = port[p].flushes
          /\ Len(SelectSeq(log', LAMBDA e : e.w = "nod_not_AB" /\ e.it = i)) = 1
          /\ pc' # "error"
          /\ i' = i + 1]_vars

\* C23: at the end of every call of run(), a second call on the same instance
\* included, the INDEX values recorded by that call are exactly
\* 0 .. (frames of the files of the call) - 1.
C23_Claim ==
    pc = "done" =>
        UNION {Range(port[p].INDEX) : p \in Ports}
            = 0..(SumOver(LAMBDA f, k : Len(f.frames), Len(hdus), 0) - 1)
====
